---- MODULE Spec2Model ----
(***************************************************************************)
(* Model of the Google Drive -> HubSpot batch job (src/main.py).           *)
(*                                                                         *)
(* One run of main(): acquire the two clients, list the folder, run one    *)
(* process_file unit per listed file, return or raise.  Every external     *)
(* call (OAuth refresh / consent, folder listing, content download,        *)
(* permissions listing, contact search, upload, engagement creation) is a  *)
(* step whose outcome is chosen by the environment.                        *)
(*                                                                         *)
(* process_file contains no suspension point: get_file_content, the        *)
(* permissions listing, do_search and requests.post are blocking calls,    *)
(* and awaiting upload_file_to_hubspot runs it inline.  The tasks that     *)
(* asyncio.gather creates therefore run one after the other, in listing    *)
(* order, each to its end (Cur below).                                     *)
(*                                                                         *)
(* A unit's record holds the coroutine's frame (its file argument, the     *)
(* emails list, the loop position, a per-entry log of the calls issued)    *)
(* while the coroutine lives.  When the task completes (TaskDone) the      *)
(* frame is released; what stays is the result, how the download and the   *)
(* permissions listing ended, and the number of calls issued per kind.     *)
(***************************************************************************)
EXTENDS Integers, Sequences, FiniteSets, TLC

\* ---- bounds of the model ------------------------------------------------
MaxFiles == 2     \* files returned by the folder listing
MaxPerms == 2     \* entries returned by one permissions listing
MaxChunks == 2    \* next_chunk calls that report done = False

\* ---- input domains ------------------------------------------------------
PDF == "application/pdf"

EXPORT_FORMATS ==
  [m \in {"application/vnd.google-apps.document",
          "application/vnd.google-apps.spreadsheet",
          "application/vnd.google-apps.presentation"} |-> PDF]

\* mimeTypes the listing draws from: one native-editor type, one other
ListedMimeTypes == {"application/vnd.google-apps.spreadsheet", "image/png"}

\* every kind of mimeType a listed file may have: the keys of EXPORT_FORMATS,
\* a file that is a PDF already, any other type
AllMimeTypes == DOMAIN EXPORT_FORMATS \cup {PDF, "image/png"}

\* state of token.pickle when the run starts
TokenStates == {"absent", "valid", "expired", "invalid"}

\* a permissions entry either carries an emailAddress or does not
NoEmail == ""
PermEntries == {NoEmail, "e@x.com"}

\* contact ids a search may return and file ids an upload may return
Contacts == {101}
FileIds == {11}

SeqsUpTo(S, n) == UNION {[1..k -> S] : k \in 0..n}

SearchResults == SeqsUpTo(Contacts, 1)
UploadOutcomes == {"exception", "non200", "malformed", "ok"}
EngagementOutcomes == {"exception", "non200", "ok"}

VARIABLES
  env,      \* which of the three settings are present
  token,    \* cached credential (token.pickle); it is rewritten exactly
            \* when an OAuth exchange (creds.refresh or the consent flow)
            \* has succeeded
  mainpc,   \* position of main()
  exc,      \* exception raised inside main's try ("none" when none)
  nList,    \* folder listing calls issued so far
  units,    \* one process_file unit per listed file
  call      \* frame of the upload_file_to_hubspot call in progress

vars == <<env, token, mainpc, exc, nList, units, call>>

NoCall == [contact |-> 0, ctype |-> "none", up |-> "none", eng |-> "none",
           file_id |-> 0, attachment |-> 0, assoc |-> 0, ret |-> "none"]

\* the file argument of a coroutine whose frame has been released
NoFile == "released"

NoTotals == [entries |-> 0, search |-> 0, resolved |-> 0, upload |-> 0, eng |-> 0,
             created |-> 0, attached |-> 0]

\* process_file(drive_service, hubspot_client, file) before its first step
NewUnit(mime) ==
  [pc |-> "start", result |-> "none", file |-> mime,
   content |-> "unset", mode |-> "none", chunks |-> 0,
   nDownload |-> 0, nPerms |-> 0, pstat |-> "none",
   emails |-> <<>>, idx |-> 0,
   sres |-> <<>>, attach |-> <<>>,
   nSearch |-> <<>>, nUpload |-> <<>>, nEng |-> <<>>, created |-> <<>>,
   total |-> NoTotals]

Zeros(n) == [k \in 1..n |-> 0]

\* ---- main(): Init phase -------------------------------------------------

\* variant: the handler swallows the exception and main returns normally
OnMainException_Swallow == "Completed"

\* except Exception: print; raise
OnMainException == "Aborted"

Init ==
  /\ env \in [cred : BOOLEAN, hub : BOOLEAN, folder : BOOLEAN]
  /\ token \in TokenStates
  /\ mainpc = "drive"
  /\ exc = "none"
  /\ nList = 0
  /\ units = <<>>
  /\ call = NoCall

\* get_google_drive_service()
GetGoogleDriveService ==
  /\ mainpc = "drive"
  /\ \E o \in {"ok", "raise"} :
       IF ~env.cred
       THEN /\ mainpc' = OnMainException
            /\ exc' = "ValueError"
            /\ UNCHANGED token
       ELSE \* token "valid": no exchange, build() only; "expired": refresh;
            \* otherwise the consent flow; then pickle.dump and build()
            /\ IF o = "ok"
               THEN /\ token' = IF token = "valid" THEN token ELSE "valid"
                    /\ mainpc' = "hubspot"
                    /\ exc' = exc
               ELSE /\ token' = token
                    /\ mainpc' = OnMainException
                    /\ exc' = "AuthError"
  /\ UNCHANGED <<env, nList, units, call>>

\* get_hubspot_client()
GetHubspotClient ==
  /\ mainpc = "hubspot"
  /\ mainpc' = IF env.hub THEN "folder" ELSE OnMainException
  /\ exc' = IF env.hub THEN exc ELSE "ValueError"
  /\ UNCHANGED <<env, token, nList, units, call>>

\* folder_id = os.getenv(...); if not folder_id: raise
CheckFolderId ==
  /\ mainpc = "folder"
  /\ mainpc' = IF env.folder THEN "list" ELSE OnMainException
  /\ exc' = IF env.folder THEN exc ELSE "ValueError"
  /\ UNCHANGED <<env, token, nList, units, call>>

\* drive_service.files().list(...).execute(); tasks = [...]
ListFolderFiles ==
  /\ mainpc = "list"
  /\ nList' = nList + 1
  /\ \/ /\ mainpc' = OnMainException
        /\ exc' = "HttpError"
        /\ UNCHANGED units
     \/ \E fs \in SeqsUpTo(ListedMimeTypes, MaxFiles) :
          /\ units' = [i \in 1..Len(fs) |-> NewUnit(fs[i])]
          /\ mainpc' = "gather"
          /\ exc' = exc
  /\ UNCHANGED <<env, token, call>>

\* the same call on a folder of at most one file, of any mimeType
ListOneFile ==
  /\ mainpc = "list"
  /\ nList' = nList + 1
  /\ \/ /\ mainpc' = OnMainException
        /\ exc' = "HttpError"
        /\ UNCHANGED units
     \/ \E fs \in SeqsUpTo(AllMimeTypes, 1) :
          /\ units' = [i \in 1..Len(fs) |-> NewUnit(fs[i])]
          /\ mainpc' = "gather"
          /\ exc' = exc
  /\ UNCHANGED <<env, token, call>>

\* ---- asyncio.gather: which unit runs ------------------------------------

\* The event loop starts the tasks in listing order and each runs to its end
\* before the next one starts: the running unit is the first unfinished one.
Cur ==
  IF \E i \in 1..Len(units) : units[i].pc # "finished"
  THEN CHOOSE i \in 1..Len(units) :
         /\ units[i].pc # "finished"
         /\ \A j \in 1..(i - 1) : units[j].pc = "finished"
  ELSE 0

\* unit f is the running one and stands at pc
Running(f, pc) ==
  /\ mainpc = "gather"
  /\ f \in 1..Len(units)
  /\ units[f].pc = pc
  /\ \A j \in 1..(f - 1) : units[j].pc = "finished"

SetUnit(f, u) ==
  units' = [units EXCEPT ![f] = u]

RECURSIVE Sum(_)
Sum(q) == IF q = <<>> THEN 0 ELSE Head(q) + Sum(Tail(q))

Count(q, v) == Cardinality({k \in 1..Len(q) : q[k] = v})

\* the coroutine has returned: its frame goes, its result and the number of
\* calls it issued stay
Release(u) ==
  [u EXCEPT !.pc = "finished", !.file = NoFile, !.mode = "none",
            !.emails = <<>>, !.idx = 0, !.sres = <<>>, !.attach = <<>>,
            !.nSearch = <<>>, !.nUpload = <<>>, !.nEng = <<>>,
            !.created = <<>>,
            !.total = [entries |-> Len(u.emails),
                       search |-> Sum(u.nSearch),
                       resolved |-> Count(u.sres, "found"),
                       upload |-> Sum(u.nUpload),
                       eng |-> Sum(u.nEng),
                       created |-> Sum(u.created),
                       attached |-> Count(u.attach, "True")]]

\* ---- process_file: handlers and branches --------------------------------

\* variant: the outer handler re-raises instead of returning False
OnUnitException_Reraise(u) == [u EXCEPT !.pc = "done", !.result = "raise"]

\* outer "except Exception": print, return False
OnUnitException(u) == [u EXCEPT !.pc = "done", !.result = "False"]

\* the permissions listing call raising inside the outer try
OnPermissionsRaise(u) == OnUnitException([u EXCEPT !.pstat = "raise"])

\* get_file_content's "except Exception": print, return None
OnDownloadException == "null"

\* variant: a None content is not detected
ContentMissing_NullKept(c) == c = "empty"

\* "if not file_content": None and b'' are both falsy
ContentMissing(c) == c \in {"null", "empty"}

\* lines 274-277: the unit stops when no content came back
AfterDownload(u, c) ==
  IF ContentMissing(c)
  THEN [u EXCEPT !.content = c, !.chunks = 0, !.pc = "done", !.result = "False"]
  ELSE [u EXCEPT !.content = c, !.chunks = 0, !.pc = "perms"]

\* variant: the comprehension without its "if" filter
SharedEmails_Unfiltered(perms) == perms

\* emails = [p.get('emailAddress') for p in ... if p.get('emailAddress')]
SharedEmails(perms) == SelectSeq(perms, LAMBDA p : p # NoEmail)

\* lines 284-291: extract the emails, stop when there is none, else loop
AfterPermissions(u, perms) ==
  LET emails == SharedEmails(perms)
      n == Len(emails)
      v == [u EXCEPT !.pstat = IF \A i \in 1..Len(perms) : perms[i] = NoEmail
                               THEN "no address" ELSE "listed",
                     !.emails = emails,
                     !.sres = [k \in 1..n |-> "none"],
                     !.attach = [k \in 1..n |-> "none"],
                     !.nSearch = Zeros(n), !.nUpload = Zeros(n),
                     !.nEng = Zeros(n), !.created = Zeros(n)]
  IN IF emails = <<>>
     THEN [v EXCEPT !.pc = "done", !.result = "False"]
     ELSE [v EXCEPT !.pc = "search", !.idx = 1]

\* variant: the result reflects whether any attachment succeeded
NextEmail_FalseIfNoneAttached(u) ==
  IF u.idx < Len(u.emails)
  THEN [u EXCEPT !.idx = @ + 1, !.pc = "search"]
  ELSE [u EXCEPT !.pc = "done",
                 !.result = IF \E k \in 1..Len(u.attach) : u.attach[k] = "True"
                            THEN "True" ELSE "False"]

\* variant: the loop never leaves its last element
NextEmail_NeverReturns(u) ==
  IF u.idx < Len(u.emails)
  THEN [u EXCEPT !.idx = @ + 1, !.pc = "search"]
  ELSE [u EXCEPT !.pc = "blocked"]

\* "for email in emails" reaching its next element, or "return True"
NextEmail(u) ==
  IF u.idx < Len(u.emails)
  THEN [u EXCEPT !.idx = @ + 1, !.pc = "search"]
  ELSE [u EXCEPT !.pc = "done", !.result = "True"]

\* variant: "break" in place of "continue"
OnNoContact_Break(u) == [u EXCEPT !.pc = "done", !.result = "True"]

\* "if not contact_result.results": print, continue
OnNoContact(u) == NextEmail(u)

\* variant: no inner handler, the exception reaches the outer one
OnRecipientException_Abort(u) == OnUnitException(u)

\* variant: the inner handler tries the same email again
OnRecipientException_Retry(u) == [u EXCEPT !.pc = "search"]

\* inner "except Exception": print, continue
OnRecipientException(u) == NextEmail(u)

\* ---- upload_file_to_hubspot: branches -----------------------------------

\* variant: the original mimeType is always sent
UploadContentType_Original(mime) == mime

\* content type sent with the file part of the upload
UploadContentType(mime) ==
  IF mime \in DOMAIN EXPORT_FORMATS THEN PDF ELSE mime

\* variant: the KeyError / IndexError of a malformed body is not caught
AfterUploadResponse_Uncaught(o) ==
  CASE o = "exception" -> "False"
    [] o = "non200"    -> "False"
    [] o = "malformed" -> "raise"
    [] OTHER           -> "go on"

\* variant: the upload's status code is not checked
AfterUploadResponse_NoStatusCheck(o) ==
  CASE o = "exception" -> "False"
    [] o = "malformed" -> "False"
    [] OTHER           -> "go on"

\* what follows requests.post(url, ...): "go on" to the engagement, or the
\* value returned ("raise" would be an exception leaving the function)
AfterUploadResponse(o) ==
  CASE o = "exception" -> "False"    \* caught by except Exception
    [] o = "non200"    -> "False"    \* status_code != 200
    [] o = "malformed" -> "False"    \* json()['objects'][0]['id'] raises, caught
    [] OTHER           -> "go on"

\* variant: the engagement's status code is not checked
AfterEngagementResponse_NoStatusCheck(o) ==
  CASE o = "exception" -> "False"
    [] OTHER           -> "True"

\* what follows requests.post(engagement_url, ...)
AfterEngagementResponse(o) ==
  CASE o = "exception" -> "False"
    [] o = "non200"    -> "False"
    [] OTHER           -> "True"

\* ---- process_file: steps ------------------------------------------------

\* the request get_file_content builds: export_media for the keys of
\* EXPORT_FORMATS, get_media for everything else
RequestMode(mime) ==
  IF mime \in DOMAIN EXPORT_FORMATS THEN "export" ELSE "media"

\* get_file_content up to the creation of the downloader
BeginDownload(f) ==
  /\ Running(f, "start")
  /\ SetUnit(f, [units[f] EXCEPT
                   !.pc = "chunks",
                   !.nDownload = @ + 1,
                   !.mode = RequestMode(units[f].file)])
  /\ UNCHANGED <<env, token, mainpc, exc, nList, call>>

\* one downloader.next_chunk(); on done, return file.getvalue()
NextChunk(f) ==
  /\ Running(f, "chunks")
  /\ \E o \in {"raise", "more", "done_empty", "done_bytes"} :
       CASE o = "raise" ->
              SetUnit(f, AfterDownload(units[f], OnDownloadException))
         [] o = "more" ->
              /\ units[f].chunks < MaxChunks
              /\ SetUnit(f, [units[f] EXCEPT !.chunks = @ + 1])
         [] o = "done_empty" ->
              SetUnit(f, AfterDownload(units[f], "empty"))
         [] OTHER ->
              SetUnit(f, AfterDownload(units[f], "bytes"))
  /\ UNCHANGED <<env, token, mainpc, exc, nList, call>>

\* drive_service.permissions().list(...).execute()
ListPermissions(f) ==
  /\ Running(f, "perms")
  /\ LET u == [units[f] EXCEPT !.nPerms = @ + 1]
     IN \/ SetUnit(f, OnPermissionsRaise(u))
        \/ \E perms \in SeqsUpTo(PermEntries, MaxPerms) :
             SetUnit(f, AfterPermissions(u, perms))
  /\ UNCHANGED <<env, token, mainpc, exc, nList, call>>

\* hubspot_client.crm.contacts.search_api.do_search(...)
SearchContact(f) ==
  /\ Running(f, "search")
  /\ LET k == units[f].idx
         u == [units[f] EXCEPT !.nSearch[k] = @ + 1]
     IN \/ /\ SetUnit(f, OnRecipientException([u EXCEPT !.sres[k] = "raise"]))
           /\ call' = NoCall
        \/ \E results \in SearchResults :
             IF results = <<>>
             THEN /\ SetUnit(f, OnNoContact([u EXCEPT !.sres[k] = "empty"]))
                  /\ call' = NoCall
             ELSE /\ SetUnit(f, [u EXCEPT !.sres[k] = "found", !.pc = "upload"])
                  /\ call' = [NoCall EXCEPT !.contact = results[1]]
  /\ UNCHANGED <<env, token, mainpc, exc, nList>>

\* upload_file_to_hubspot: requests.post(url, headers, files) and its checks
UploadFile(f) ==
  /\ Running(f, "upload")
  /\ LET k == units[f].idx
         u == [units[f] EXCEPT !.nUpload[k] = @ + 1]
         c == [call EXCEPT !.ctype = UploadContentType(units[f].file)]
     IN \E o \in UploadOutcomes, id \in FileIds :
          LET r == AfterUploadResponse(o)
          IN IF r = "go on"
             THEN /\ SetUnit(f, [u EXCEPT !.pc = "engage"])
                  /\ call' = [c EXCEPT !.up = o, !.file_id = id]
             ELSE /\ SetUnit(f, [u EXCEPT !.pc = "returned"])
                  /\ call' = [c EXCEPT !.up = o, !.ret = r]
  /\ UNCHANGED <<env, token, mainpc, exc, nList>>

\* upload_file_to_hubspot: requests.post(engagement_url, ...) and its checks
CreateEngagement(f) ==
  /\ Running(f, "engage")
  /\ LET k == units[f].idx
     IN \E o \in EngagementOutcomes :
          /\ SetUnit(f, [units[f] EXCEPT
                           !.nEng[k] = @ + 1,
                           !.created[k] = IF o = "ok" THEN @ + 1 ELSE @,
                           !.pc = "returned"])
          /\ call' = [call EXCEPT !.eng = o,
                                  !.attachment = call.file_id,
                                  !.assoc = call.contact,
                                  !.ret = AfterEngagementResponse(o)]
  /\ UNCHANGED <<env, token, mainpc, exc, nList>>

\* back in process_file: success = await ...; if success: print; next email
AttachReturn(f) ==
  /\ Running(f, "returned")
  /\ LET k == units[f].idx
     IN IF call.ret = "raise"
        THEN SetUnit(f, OnRecipientException([units[f] EXCEPT !.attach[k] = "raise"]))
        ELSE SetUnit(f, NextEmail([units[f] EXCEPT !.attach[k] = call.ret]))
  /\ call' = NoCall
  /\ UNCHANGED <<env, token, mainpc, exc, nList>>

\* the task of a returned coroutine completes and the next task starts
TaskDone(f) ==
  /\ Running(f, "done")
  /\ SetUnit(f, Release(units[f]))
  /\ UNCHANGED <<env, token, mainpc, exc, nList, call>>

\* variant: waiting on an empty task list raises (as asyncio.wait does)
GatherRaises_OnEmpty(us) ==
  us = <<>> \/ \E i \in 1..Len(us) : us[i].result = "raise"

\* gather re-raises when one of its tasks ended with an exception; with no
\* task at all it returns an empty result list
GatherRaises(us) == \E i \in 1..Len(us) : us[i].result = "raise"

\* await asyncio.gather(*tasks) returning, or re-raising a task's exception
GatherReturn ==
  /\ mainpc = "gather"
  /\ Cur = 0
  /\ IF GatherRaises(units)
     THEN mainpc' = OnMainException /\ exc' = "TaskError"
     ELSE mainpc' = "Completed" /\ exc' = exc
  /\ UNCHANGED <<env, token, nList, units, call>>

Next ==
  \/ GetGoogleDriveService
  \/ GetHubspotClient
  \/ CheckFolderId
  \/ ListFolderFiles
  \/ \E f \in 1..MaxFiles : BeginDownload(f)
  \/ \E f \in 1..MaxFiles : NextChunk(f)
  \/ \E f \in 1..MaxFiles : ListPermissions(f)
  \/ \E f \in 1..MaxFiles : SearchContact(f)
  \/ \E f \in 1..MaxFiles : UploadFile(f)
  \/ \E f \in 1..MaxFiles : CreateEngagement(f)
  \/ \E f \in 1..MaxFiles : AttachReturn(f)
  \/ \E f \in 1..MaxFiles : TaskDone(f)
  \/ GatherReturn

Spec == Init /\ [][Next]_vars

\* the run over a folder of at most one file whose mimeType is any of
\* AllMimeTypes
MimeNext ==
  \/ GetGoogleDriveService
  \/ GetHubspotClient
  \/ CheckFolderId
  \/ ListOneFile
  \/ \E f \in 1..MaxFiles : BeginDownload(f)
  \/ \E f \in 1..MaxFiles : NextChunk(f)
  \/ \E f \in 1..MaxFiles : ListPermissions(f)
  \/ \E f \in 1..MaxFiles : SearchContact(f)
  \/ \E f \in 1..MaxFiles : UploadFile(f)
  \/ \E f \in 1..MaxFiles : CreateEngagement(f)
  \/ \E f \in 1..MaxFiles : AttachReturn(f)
  \/ \E f \in 1..MaxFiles : TaskDone(f)
  \/ GatherReturn

MimeSpec == Init /\ [][MimeNext]_vars

\* Every external call eventually returns or raises and the event loop keeps
\* running ready tasks: a step that can be taken is eventually taken.
FairSpec == Spec /\ WF_vars(Next)

\* ---- properties ----------------------------------------------------------

Units == 1..Len(units)

\* the coroutine has returned
Ended(u) == u.pc \in {"done", "finished"}

\* the task is complete and it holds a result, not an exception
Finished(u) == u.pc = "finished" /\ u.result \in {"True", "False"}

NoRecipientCalls(u) ==
  /\ \A k \in 1..Len(u.emails) :
       u.nSearch[k] = 0 /\ u.nUpload[k] = 0 /\ u.nEng[k] = 0
  /\ u.total.search = 0 /\ u.total.upload = 0 /\ u.total.eng = 0

AnySettingMissing == ~env.cred \/ ~env.hub \/ ~env.folder

C2_NullDownloadSkipsFile ==
  \A f \in Units :
    units[f].content = "null" =>
      /\ Ended(units[f]) /\ units[f].result = "False"
      /\ units[f].nPerms = 0 /\ units[f].pstat = "none"
      /\ NoRecipientCalls(units[f])
      /\ exc = "none" /\ mainpc \in {"gather", "Completed"}
      /\ (mainpc = "Completed" => \A g \in Units : Finished(units[g]))

C2_Witness ==
  /\ mainpc = "Completed"
  /\ \E f, g \in Units :
       /\ units[f].content = "null" /\ units[f].nDownload = 1
       /\ units[g].result = "True" /\ units[g].total.created >= 1

\* C3: a file whose permissions listing has no entry with an emailAddress
\* ends there with zero contact searches, uploads and engagements, and it
\* leaves the rest of the run as it found it: a step of the running unit
\* changes that unit's record only, a finished unit never changes again,
\* and the step that lists the no-address permissions leaves every other
\* file's record, the run's position, its exception, its listing count and
\* the (empty) upload frame untouched.
C3_NoEmailsNoEffect ==
  [][ /\ (mainpc = "gather" /\ Cur # 0) =>
           /\ \A g \in Units \ {Cur} : units'[g] = units[g]
           /\ UNCHANGED <<env, token, mainpc, exc, nList>>
      /\ \A f \in Units : units[f].pc = "finished" => units'[f] = units[f]
      /\ \A f \in Units :
           (mainpc = "gather" /\ units'[f].pstat = "no address") =>
             /\ Ended(units'[f]) /\ units'[f].result = "False"
             /\ NoRecipientCalls(units'[f])
             /\ units[f].pc = "perms" => (call = NoCall /\ call' = NoCall)
    ]_vars

C3_Witness ==
  /\ mainpc = "Completed"
  /\ \E f, g \in Units :
       /\ units[f].pstat = "no address" /\ units[f].result = "False"
       /\ units[f].nPerms = 1 /\ units[f].total.search = 0
       /\ units[g].result = "True" /\ units[g].total.created >= 1

\* C4: an email whose contact search returned no result gets no upload and
\* no engagement, and every email after it in the file's list still gets
\* its contact search and, when resolved, its upload.
C4_UnresolvedEmailSkipped ==
  \A f \in Units :
    LET u == units[f]
    IN \A k \in 1..Len(u.emails) :
         u.sres[k] = "empty" =>
           /\ u.nUpload[k] = 0 /\ u.nEng[k] = 0 /\ u.created[k] = 0
           /\ IF u.pc = "done"
              THEN \A j \in (k + 1)..Len(u.emails) :
                     /\ u.nSearch[j] = 1
                     /\ u.sres[j] = "found" => u.nUpload[j] = 1
              ELSE u.idx > k

C4_Witness ==
  \E f \in Units :
    LET u == units[f]
    IN /\ u.pc = "done" /\ Len(u.emails) = 2
       /\ u.sres[1] = "empty" /\ u.nUpload[1] = 0
       /\ u.sres[2] = "found" /\ u.nUpload[2] = 1 /\ u.created[2] = 1

\* the run is over, the listing was not empty and every file had at least
\* one recipient that resolved to a contact
EveryFileHasResolvedRecipient ==
  /\ mainpc = "Completed"
  /\ units # <<>>
  /\ \A g \in Units : units[g].total.resolved >= 1

\* C5 as stated: in such a run every file that process_file reports True
\* has exactly one engagement per recipient that resolved to a contact.
C5_OneEngagementPerResolved ==
  EveryFileHasResolvedRecipient =>
    \A f \in Units :
      units[f].result = "True" =>
        units[f].total.created = units[f].total.resolved

\* C5 amended: every file that process_file reports True has exactly one
\* engagement per recipient-list entry for which upload_file_to_hubspot
\* returned True and none for any other entry (never a second one, none for
\* an entry that did not resolve); in a run where every file has a resolved
\* recipient the engagements of a file are as many as the entries that
\* returned True, at most as many as the entries that resolved.
C5_OneEngagementPerAttached ==
  /\ \A f \in Units :
       LET u == units[f]
       IN (u.pc = "done" /\ u.result = "True") =>
            \A k \in 1..Len(u.emails) :
              /\ u.created[k] = IF u.attach[k] = "True" THEN 1 ELSE 0
              /\ u.created[k] = 1 => u.sres[k] = "found"
  /\ EveryFileHasResolvedRecipient =>
       \A f \in Units :
         units[f].result = "True" =>
           /\ units[f].total.created = units[f].total.attached
           /\ units[f].total.created <= units[f].total.resolved

C5_Witness ==
  /\ EveryFileHasResolvedRecipient
  /\ \E f \in Units :
       /\ units[f].result = "True"
       /\ units[f].total.resolved = 2
       /\ units[f].total.attached = 1 /\ units[f].total.created = 1

\* C6: upload_file_to_hubspot never raises to its caller; it returns True
\* only when both the upload and the engagement creation returned 200, and
\* False for every other outcome of either call.
C6_AttachNeverRaises ==
  \A f \in Units :
    /\ \A k \in 1..Len(units[f].emails) :
         units[f].attach[k] \in {"none", "True", "False"}
    /\ units[f].pc = "returned" =>
         /\ call.ret \in {"True", "False"}
         /\ call.ret = "True" <=> (call.up = "ok" /\ call.eng = "ok")

C6_Witness ==
  \E f \in Units :
    /\ units[f].pc = "returned"
    /\ call.up = "malformed" /\ call.eng = "none" /\ call.ret = "False"

\* the attempt for the email at position k failed: its search raised, or
\* the upload or the engagement creation failed
RecipientFailed(u, k) == u.sres[k] = "raise" \/ u.attach[k] = "False"

\* C7: after a per-recipient failure at position k every later email of the
\* file is still attempted, and the failure aborts neither the file's unit
\* nor the run.
C7_FailureDoesNotStopLoop ==
  \A f \in Units :
    LET u == units[f]
    IN \A k \in 1..Len(u.emails) :
         RecipientFailed(u, k) =>
           /\ IF u.pc = "done"
              THEN /\ u.result = "True"
                   /\ \A j \in (k + 1)..Len(u.emails) : u.nSearch[j] = 1
              ELSE u.result = "none" /\ u.idx > k
           /\ exc = "none" /\ mainpc = "gather"

C7_Witness ==
  \E f \in Units :
    LET u == units[f]
    IN /\ u.pc = "done" /\ Len(u.emails) = 2
       /\ u.attach[1] = "False" /\ u.nEng[1] = 1 /\ u.created[1] = 0
       /\ u.sres[2] = "raise" /\ u.nSearch[2] = 1

\* C8: an exception raised by the permissions listing is caught inside the
\* file's process_file: the unit ends with False and no further call, the
\* exception reaches neither gather nor main, and when the run is Completed
\* every file's unit has run to its own end.
C8_UnitExceptionContained ==
  \A f \in Units :
    units[f].pstat = "raise" =>
      /\ Ended(units[f]) /\ units[f].result = "False"
      /\ units[f].nPerms = 1 /\ NoRecipientCalls(units[f])
      /\ exc = "none" /\ mainpc \in {"gather", "Completed"}
      /\ (mainpc = "Completed" => \A g \in Units : Finished(units[g]))

C8_Witness ==
  /\ mainpc = "Completed"
  /\ \E f, g \in Units :
       /\ f < g
       /\ units[f].pstat = "raise" /\ units[f].content = "bytes"
       /\ units[g].result = "True" /\ units[g].total.created >= 1

\* C9: a fatal error during Init or Listing (missing setting, credential
\* acquisition failing, the folder listing raising) leaves main as a raised
\* exception: the run is Aborted, not Completed, and no per-file unit exists.
C9_FatalErrorAborts ==
  exc \in {"ValueError", "AuthError", "HttpError"} =>
    /\ mainpc = "Aborted"
    /\ units = <<>>

C9_Witness ==
  /\ exc = "HttpError" /\ mainpc = "Aborted"
  /\ nList = 1 /\ token = "valid"

\* C10: no call is retried: at most one folder listing, per file at most one
\* download and one permissions listing, per recipient-list entry at most
\* one contact search, one upload request and one engagement request.
C10_NoRetry ==
  /\ nList <= 1
  /\ \A f \in Units :
       LET u == units[f]
       IN /\ u.nDownload <= 1 /\ u.nPerms <= 1
          /\ \A k \in 1..Len(u.emails) :
               u.nSearch[k] <= 1 /\ u.nUpload[k] <= 1 /\ u.nEng[k] <= 1
          /\ u.total.search <= u.total.entries
          /\ u.total.upload <= u.total.entries
          /\ u.total.eng <= u.total.entries

C10_Witness ==
  \E f \in Units :
    LET u == units[f]
    IN /\ u.pc = "done" /\ Len(u.emails) = 2
       /\ u.sres[1] = "raise" /\ u.nSearch[1] = 1
       /\ u.attach[2] = "False" /\ u.nUpload[2] = 1 /\ u.nEng[2] = 0

\* the listing returned two or more files and their tasks exist
SeveralFilesListed == mainpc = "gather" /\ Len(units) >= 2

\* one unit has issued a call and has not finished while another unit has
\* issued a call too
Interleaved ==
  \E f, g \in Units :
    /\ f # g
    /\ units[f].nDownload >= 1 /\ ~Ended(units[f])
    /\ units[g].nDownload >= 1

AttemptOver(u, j) ==
  u.sres[j] \in {"raise", "empty"} \/ u.attach[j] \in {"True", "False"}

\* C12: within a unit the calls come in a fixed order: download, then the
\* permissions listing, then per email, in listed order, the contact search,
\* the upload and the engagement creation, email k+1 being searched only
\* after email k's attempt is over.  The engagement request is issued only
\* after the upload for the same contact returned 200 and it carries the
\* file id that upload returned; so the engagements created are at most the
\* engagement requests (one per successful upload), which are at most the
\* resolved recipients.
C12_CallOrder ==
  \A f \in Units :
    LET u == units[f]
    IN /\ u.nDownload = 0 => u.pc = "start"
       /\ u.nPerms >= 1 => (u.nDownload = 1 /\ u.content = "bytes")
       /\ \A k \in 1..Len(u.emails) :
            /\ u.nSearch[k] >= 1 =>
                 /\ u.nPerms = 1 /\ u.idx >= k
                 /\ \A j \in 1..(k - 1) : AttemptOver(u, j)
            /\ u.nUpload[k] >= 1 => (u.nSearch[k] = 1 /\ u.sres[k] = "found")
            /\ u.nEng[k] >= 1 => u.nUpload[k] = 1
            /\ u.created[k] <= u.nEng[k]
            /\ u.nEng[k] <= u.nUpload[k]
       /\ u.pc = "engage" => (call.up = "ok" /\ call.file_id \in FileIds)
       /\ (u.pc = "returned" /\ call.eng # "none") =>
            /\ call.up = "ok"
            /\ call.attachment = call.file_id /\ call.file_id \in FileIds
            /\ call.assoc = call.contact /\ call.contact \in Contacts
       /\ u.total.created <= u.total.eng
       /\ u.total.eng <= u.total.upload
       /\ u.total.upload <= u.total.resolved

C12_Witness ==
  \E f \in Units :
    LET u == units[f]
    IN /\ u.pc = "returned" /\ Len(u.emails) = 2 /\ u.idx = 2
       /\ u.attach[1] = "False" /\ u.nUpload[1] = 1 /\ u.nEng[1] = 0
       /\ u.nEng[2] = 1 /\ u.created[2] = 1
       /\ call.up = "ok" /\ call.eng = "ok" /\ call.attachment = 11

\* C13: when the folder listing returns no files the run goes from Listing
\* to Completed with zero files processed: the step after the listing is
\* main returning, nothing is raised, no unit exists and so no download,
\* permissions, search, upload or engagement call is issued.
C13_EmptyListingCompletes ==
  [][ (nList = 1 /\ mainpc = "gather" /\ units = <<>>) =>
        /\ mainpc' = "Completed"
        /\ exc' = "none" /\ exc = "none"
        /\ units' = <<>> /\ call' = NoCall /\ nList' = 1
    ]_vars

C13_Witness ==
  /\ mainpc = "Completed" /\ nList = 1
  /\ units = <<>> /\ exc = "none" /\ call = NoCall

\* the three native-editor types: document, spreadsheet, presentation
NativeEditorTypes ==
  {"application/vnd.google-apps.document",
   "application/vnd.google-apps.spreadsheet",
   "application/vnd.google-apps.presentation"}

\* C14: for every mimeType the content is fetched with the export-as-PDF
\* call if and only if the type is one of the three native-editor types,
\* otherwise with the raw media download; the content type sent on upload is
\* application/pdf for those same types and the original mimeType for all
\* others, so retrieval mode and upload content type agree.
C14_ModeMatchesContentType ==
  \A f \in Units :
    LET u == units[f]
    IN /\ u.mode # "none" =>
            /\ u.mode = "export" <=> u.file \in NativeEditorTypes
            /\ u.mode = "media" <=> u.file \notin NativeEditorTypes
       /\ (u.pc \in {"engage", "returned"} /\ call.up # "none") =>
            /\ call.ctype =
                 IF u.file \in NativeEditorTypes THEN PDF ELSE u.file
            /\ u.mode = "export" => call.ctype = PDF
            /\ u.mode = "media" => call.ctype = u.file

C14_Witness ==
  \E f \in Units :
    /\ units[f].file = "application/vnd.google-apps.presentation"
    /\ units[f].mode = "export" /\ units[f].content = "bytes"
    /\ units[f].pc = "returned" /\ call.up = "ok" /\ call.ctype = PDF

\* C15: every run eventually reaches Completed or Aborted, given that each
\* external call eventually returns or raises and the chunked download
\* eventually reports done: every unit finishes and gather returns.
C15_RunTerminates == <>(mainpc \in {"Completed", "Aborted"})

C15_Witness ==
  /\ mainpc = "Completed" /\ Len(units) = 2
  /\ \A f \in Units : Finished(units[f])
  /\ \E f \in Units : units[f].total.entries = 2 /\ units[f].total.eng = 2

\* C16: a unit stops at the download step if and only if the download
\* returned null; a download that succeeds, with content of zero length
\* included, goes on to the permissions listing.
C16_StopsAtDownloadIffNull ==
  \A f \in Units :
    LET u == units[f]
    IN u.content # "unset" =>
         ((Ended(u) /\ u.nPerms = 0) <=> u.content = "null")

\* C17: the result of process_file is False exactly when the download
\* yielded no content, the recipient list was empty or an exception reached
\* the outer handler; otherwise it is True, whatever the outcomes of the
\* recipients were.
C17_ResultOfUnit ==
  \A f \in Units :
    LET u == units[f]
    IN Ended(u) =>
         /\ u.result \in {"True", "False"}
         /\ u.result = "False" <=>
              \/ u.content \in {"null", "empty"}
              \/ u.pstat \in {"no address", "raise"}
         /\ (u.pc = "done" /\ u.pstat = "no address") => u.emails = <<>>
         /\ (u.pc = "done" /\ u.pstat = "listed") => u.emails # <<>>

\* a file reported True although one recipient was unresolved and the
\* attachment for the other failed
C17_Witness ==
  \E f \in Units :
    LET u == units[f]
    IN /\ u.pc = "done" /\ u.result = "True"
       /\ Len(u.emails) = 2
       /\ u.sres[1] = "empty" /\ u.sres[2] = "found"
       /\ u.attach[2] = "False"

====
